---- MODULE Spec2Model ----
(***************************************************************************)
(* The script templates of libresprite-mcp (script_templates.py) and the   *)
(* host they are evaluated by.  A tool of mcp_server.py generates one      *)
(* script and has it evaluated; the model evaluates the script's           *)
(* statements on a host state (active sprite, active image, layers,        *)
(* command parameters), records every host primitive the script calls and  *)
(* every line it prints.  The execution proxy that hands the scripts of    *)
(* concurrent tool invocations to the host sessions is modelled beside it. *)
(***************************************************************************)
EXTENDS Integers, Sequences, FiniteSets, TLC

\* ------------------------------------------------------------- bounds
ImgW == 3
Margin == 1
MaxLayers == 3
MaxThickness == 2
MaxFault == 4
MaxCalls == 3
MaxNameLen == 3

VARIABLES
    host,     \* the host: [sprite, image, w, h, colorMode, pixels, layers, active, params]
    pc,       \* "idle" | "flood" | "line" | "done": position of the evaluation
    op,       \* the tool request being evaluated (name and arguments)
    loc,      \* the locals of the running script loop
    fault,    \* the host primitive call (1-based, per evaluation) that throws; 0: none
    out,      \* console output of this evaluation, one element per console.log
    log,      \* host primitives called by this evaluation, in order
    escaped,  \* a fault left the script uncaught
    pre,      \* the host as the evaluation found it
    prev,     \* the request of the evaluation before, when the client sends it again
    stage,    \* per tool invocation: "new" | "waiting" | "submitted" | "returned" | "timed out"
    ctx,      \* per tool invocation: the session handle it was made with
    queue,    \* per session: the invocations inside run_script, in order of arrival
    evaluating, \* per session: the scripts handed to the host and not completed
    arrived,  \* per session: every invocation that entered run_script, in order
    submitted \* per session: every script handed to the host, in order

evalVars == <<host, pc, op, loc, fault, out, log, escaped, pre, prev>>
proxyVars == <<stage, ctx, queue, evaluating, arrived, submitted>>
vars == <<host, pc, op, loc, fault, out, log, escaped, pre, prev,
          stage, ctx, queue, evaluating, arrived, submitted>>

\* ------------------------------------------------------------- colours
\* app.pixelColor: a colour is one integer, 8 bits per channel, red lowest.
rgba(r, g, b, a) == r + g * 256 + b * 65536 + a * 16777216
rgbaR(c) == c % 256
rgbaG(c) == (c \div 256) % 256
rgbaB(c) == (c \div 65536) % 256
rgbaA(c) == (c \div 16777216) % 256

\* Argument colours <<r, g, b, a>> of the requests, and the pixel values of
\* the surfaces: red, the same red with another alpha, blue.
Red == <<255, 0, 0, 127>>
RedFaint == <<255, 0, 0, 0>>
Blue == <<0, 0, 255, 127>>
Enc(t) == rgba(t[1], t[2], t[3], t[4])
ArgColours == {Red, RedFaint, Blue}
Palette == {Enc(Red), Enc(RedFaint), Enc(Blue)}
Palette2 == {Enc(Red), Enc(Blue)}

\* ------------------------------------------------------------- text
\* Text is a sequence of characters.  The characters of a layer name: a
\* letter, the double quote, the single quote, the backslash, the plus sign.
Letter == "a"
DQuote == "\""
SQuote == "'"
BSlash == "\\"
Plus == "+"
NameChars == {Letter, DQuote, SQuote, BSlash, Plus}

\* ------------------------------------------------------------- the host
\* the surfaces are ImgW wide and half as high (rounded up)
ImgH == (ImgW + 1) \div 2
Coords(w, h) == (0 .. w - 1) \X (0 .. h - 1)
NoLoc == [stack |-> <<>>]

Layer(id, name) == [id |-> id, name |-> name, isVisible |-> TRUE, isEditable |-> TRUE]

Host(sprite, image, pixels, layers, active) ==
    [sprite |-> sprite, image |-> image, w |-> ImgW, h |-> ImgH,
     colorMode |-> "RGB", pixels |-> pixels, layers |-> layers,
     active |-> active, params |-> {}]

\* img.getPixel / img.putPixel / img.clear
getPixel(h, x, y) == h.pixels[<<x, y>>]
putPixel(h, x, y, c) ==
    IF <<x, y>> \in DOMAIN h.pixels THEN [h EXCEPT !.pixels[<<x, y>>] = c] ELSE h
clear(h, c) == [h EXCEPT !.pixels = [p \in DOMAIN h.pixels |-> c]]

\* app.command.setParameter / clearParameters: the parameters of the next command
setParameter(h, name, value) ==
    [h EXCEPT !.params = {q \in @ : q[1] # name} \cup {<<name, value>>}]
clearParameters(h) == [h EXCEPT !.params = {}]
Param(h, name, default) ==
    IF \E q \in h.params : q[1] = name
      THEN (CHOOSE q \in h.params : q[1] = name)[2]
      ELSE default

\* sprite.layerCount, sprite.layer(i), app.activeLayerNumber
layerCount(h) == Len(h.layers)
layer(h, i) == h.layers[i + 1]
FreeId(h) ==
    CHOOSE id \in 1 .. Len(h.layers) + 1 :
        /\ \A i \in DOMAIN h.layers : h.layers[i].id # id
        /\ \A j \in 1 .. id - 1 : \E i \in DOMAIN h.layers : h.layers[i].id = j

\* app.command.NewFile(): with ok, a new sprite of the size given by the
\* parameters becomes the active one, with one layer and a transparent image;
\* without, the host creates nothing
NewFile(h, ok) ==
    IF ok
      THEN [h EXCEPT !.sprite = TRUE, !.image = TRUE,
                     !.w = Param(h, "width", h.w), !.h = Param(h, "height", h.h),
                     !.colorMode = Param(h, "colorMode", "RGB"),
                     !.pixels = [p \in Coords(Param(h, "width", h.w),
                                              Param(h, "height", h.h)) |-> 0],
                     !.layers = <<Layer(1, <<"L", "1">>)>>,
                     !.active = 0]
      ELSE h

\* app.command.NewLayer(): a layer named by the "name" parameter is put on
\* top of the active layer and becomes the active one
NewLayer(h) ==
    LET new == Layer(FreeId(h), Param(h, "name", <<"L">>))
        k == IF Len(h.layers) = 0 THEN 0 ELSE h.active + 1
    IN  [h EXCEPT !.layers = SubSeq(@, 1, k) \o <<new>> \o SubSeq(@, k + 1, Len(@)),
                  !.active = k]

\* app.command.RemoveLayer(): it takes no argument and removes the active layer
RemoveLayer(h) ==
    IF Len(h.layers) = 0 THEN h
    ELSE [h EXCEPT !.layers = SubSeq(@, 1, h.active) \o SubSeq(@, h.active + 2, Len(@)),
                   !.active = IF @ > 0 THEN @ - 1 ELSE 0]

\* (faulty variant) the upper limits tested with <=
InBoundsInclusive(h, x, y) == x >= 0 /\ x <= h.w /\ y >= 0 /\ y <= h.h

\* the bounds test the scripts make before they touch a pixel
InBounds(h, x, y) == x >= 0 /\ x < h.w /\ y >= 0 /\ y < h.h

\* ------------------------------------------------------------- calls
Call(prim, args) == [prim |-> prim, args |-> args]
Msg(text, args) == [text |-> text, args |-> args]

\* the call after n more calls is the one that throws
Throws(n) == fault = Len(log) + n

\* the pixels written / read by the evaluation so far
Written == {log[i].args[1] : i \in {j \in DOMAIN log : log[j].prim = "putPixel"}}
ReadPx == {log[i].args[1] : i \in {j \in DOMAIN log : log[j].prim = "getPixel"}}
NWrites(p) == Cardinality({j \in DOMAIN log : log[j].prim = "putPixel" /\ log[j].args[1] = p})

\* the catch clause of every template: print one line, swallow the fault
ErrorText(name) ==
    CASE name = "create_sprite" -> "Error creating sprite: "
      [] name = "create_layer" -> "Error creating layer: "
      [] name = "fill_layer" -> "Error filling layer: "
      [] name = "draw_circle" -> "Error drawing circle: "
      [] name = "get_sprite_info" -> "Error getting sprite info: "
      [] name = "draw_rectangle" -> "Error drawing rectangle: "
      [] name = "draw_line" -> "Error drawing line: "
      [] name = "draw_ellipse" -> "Error drawing ellipse: "
      [] name = "put_pixel" -> "Error setting pixel: "
      [] name = "flood_fill" -> "Error flood filling: "
      [] name = "set_active_layer" -> "Error switching layer: "
      [] name = "delete_layer" -> "Error deleting layer: "
      [] name = "replace_color" -> "Error replacing color: "

\* The evaluation ends: host h2, output o2, calls l2.
Finish(h2, o2, l2) ==
    /\ host' = h2
    /\ out' = o2
    /\ log' = l2
    /\ pc' = "done"
    /\ loc' = loc
    /\ escaped' = FALSE

\* (faulty variant) no catch clause: the fault leaves the script
Uncaught(name, h2, o2, l2) ==
    /\ host' = h2
    /\ out' = o2
    /\ log' = l2
    /\ pc' = "done"
    /\ loc' = loc
    /\ escaped' = TRUE

\* A call threw inside the try block of template `name`: the calls l2 were
\* made (the last one threw), the host is h2, o2 was printed before.
Caught(name, h2, o2, l2) ==
    Finish(h2, Append(o2, Msg(ErrorText(name), <<"e.message">>)), l2)

\* ------------------------------------------------------------- pixel scripts
RECURSIVE Concat(_, _)
Concat(f, n) == IF n <= 0 THEN <<>> ELSE Concat(f, n - 1) \o f[n]

Put(x, y, c) == Call("putPixel", <<<<x, y>>, c>>)
Get(x, y) == Call("getPixel", <<<<x, y>>>>)

\* the effect of one host call
Do(h, c) ==
    CASE c.prim = "putPixel" -> putPixel(h, c.args[1][1], c.args[1][2], c.args[2])
      [] c.prim = "clear" -> clear(h, c.args[1])
      [] c.prim = "setParameter" -> setParameter(h, c.args[1], c.args[2])
      [] c.prim = "clearParameters" -> clearParameters(h)
      [] c.prim = "NewFile" -> NewFile(h, c.args[1])
      [] c.prim = "NewLayer" -> NewLayer(h)
      [] c.prim = "RemoveLayer" -> RemoveLayer(h)
      [] OTHER -> h

\* the host after the first n calls were made in order
RECURSIVE Exec(_, _, _)
Exec(h, calls, n) == IF n <= 0 THEN h ELSE Do(Exec(h, calls, n - 1), calls[n])
ApplyCalls(h, calls) == Exec(h, calls, Len(calls))

\* the body of a try block that makes `calls` and then prints okOut; when
\* call k throws, partOut[k] has been printed
RunCallsOut(name, calls, partOut, okOut) ==
    IF fault \in 1 .. Len(calls)
      THEN Caught(name, Exec(host, calls, fault - 1), partOut[fault],
                  SubSeq(calls, 1, fault))
      ELSE Finish(ApplyCalls(host, calls), okOut, calls)

NoOut(calls) == [k \in 1 .. Len(calls) |-> <<>>]
RunCalls(name, calls, okOut) == RunCallsOut(name, calls, NoOut(calls), okOut)

\* (faulty variant) the active-sprite test left out
PixelScriptNoSpriteTest(name, calls, okOut) ==
    IF ~host.image
      THEN Finish(host, <<Msg("No active image", <<>>)>>, <<>>)
      ELSE RunCalls(name, calls, okOut)

\* (faulty variant) the active-image test left out
PixelScriptNoImageTest(name, calls, okOut) ==
    IF ~host.sprite
      THEN Finish(host, <<Msg("No active sprite", <<>>)>>, <<>>)
      ELSE RunCalls(name, calls, okOut)

\* const sprite = app.activeSprite; if (!sprite) ... else { const img =
\* app.activeImage; if (!img) ... else { body } }
PixelScript(name, calls, okOut) ==
    IF ~host.sprite
      THEN Finish(host, <<Msg("No active sprite", <<>>)>>, <<>>)
    ELSE IF ~host.image
      THEN Finish(host, <<Msg("No active image", <<>>)>>, <<>>)
    ELSE RunCalls(name, calls, okOut)

\* a request starts being evaluated
Begin(request) ==
    /\ pc = "idle"
    /\ op' = request
    /\ pre' = host
    /\ UNCHANGED <<fault, prev>>
    /\ UNCHANGED proxyVars

\* ------------------------------------------------------------- create_sprite
\* color_mode.upper()
Upper(color_mode) ==
    CASE color_mode = "rgb" -> "RGB"
      [] color_mode = "Rgb" -> "RGB"
      [] color_mode = "indexed" -> "INDEXED"
      [] OTHER -> color_mode

\* no test for an active sprite: the script creates one
create_sprite(width, height, color_mode, ok) ==
    /\ Begin([name |-> "create_sprite", width |-> width, height |-> height,
              color_mode |-> color_mode, ok |-> ok])
    /\ LET calls == <<Call("setParameter", <<"width", width>>),
                      Call("setParameter", <<"height", height>>),
                      Call("setParameter", <<"colorMode", Upper(color_mode)>>),
                      Call("NewFile", <<ok>>),
                      Call("clearParameters", <<>>)>>
           h2 == ApplyCalls(host, calls)
       IN  RunCalls("create_sprite", calls,
                    IF h2.sprite
                      THEN <<Msg("Created new sprite", <<h2.w, h2.h, h2.colorMode>>),
                             Msg("Active sprite now has layer(s)", <<layerCount(h2)>>)>>
                      ELSE <<Msg("Failed to create sprite", <<>>)>>)

\* ------------------------------------------------------------- create_layer
\* The host reads a string literal: the text after the opening quote, up to
\* the first quote of the same kind that no backslash precedes; a backslash
\* makes the character after it part of the value.
RECURSIVE ScanString(_, _, _)
ScanString(text, quote, value) ==
    IF text = <<>>
      THEN [ok |-> FALSE, value |-> value, rest |-> <<>>]
    ELSE IF Head(text) = quote
      THEN [ok |-> TRUE, value |-> value, rest |-> Tail(text)]
    ELSE IF Head(text) = BSlash
      THEN IF Len(text) = 1
             THEN [ok |-> FALSE, value |-> value, rest |-> <<>>]
             ELSE ScanString(Tail(Tail(text)), quote, Append(value, text[2]))
    ELSE ScanString(Tail(text), quote, Append(value, Head(text)))

\* The host reads an argument: string literals joined by +, up to the end of
\* the argument's text.  Any other text is a syntax error.
RECURSIVE ParseArgument(_, _)
ParseArgument(text, value) ==
    IF text = <<>> \/ Head(text) \notin {DQuote, SQuote}
      THEN [ok |-> FALSE, value |-> value]
      ELSE LET lit == ScanString(Tail(text), Head(text), <<>>)
           IN  IF ~lit.ok
                 THEN [ok |-> FALSE, value |-> value]
               ELSE IF lit.rest = <<>>
                 THEN [ok |-> TRUE, value |-> value \o lit.value]
               ELSE IF Head(lit.rest) = Plus
                 THEN ParseArgument(Tail(lit.rest), value \o lit.value)
               ELSE [ok |-> FALSE, value |-> value]

\* f-string: "{name}" and 'Created new layer: {name}', the name as it is
NameArgument(name) == <<DQuote>> \o name \o <<DQuote>>
LogArgument(name) == <<SQuote, "Created new layer: ">> \o name \o <<SQuote>>

\* a script the host cannot parse is not evaluated at all: no statement of
\* it runs, its try block included, and the host reports the syntax error
SyntaxError ==
    /\ host' = host
    /\ out' = <<>>
    /\ log' = <<>>
    /\ pc' = "done"
    /\ loc' = loc
    /\ escaped' = TRUE

create_layer(name) ==
    /\ Begin([name |-> "create_layer", layer_name |-> name])
    /\ LET arg == ParseArgument(NameArgument(name), <<>>)
           line == ParseArgument(LogArgument(name), <<>>)
       IN  IF ~arg.ok \/ ~line.ok
             THEN SyntaxError
           ELSE IF ~host.sprite
             THEN Finish(host, <<Msg("No active sprite", <<>>)>>, <<>>)
           ELSE LET calls == <<Call("setParameter", <<"name", arg.value>>),
                               Call("NewLayer", <<>>),
                               Call("clearParameters", <<>>)>>
                    h2 == ApplyCalls(host, calls)
                IN  RunCalls("create_layer", calls,
                             <<Msg("Created new layer", <<Tail(line.value)>>),
                               Msg("Sprite now has layer(s)", <<layerCount(h2)>>)>>)

\* ------------------------------------------------------------- get_sprite_info
InfoHeader(h) ==
    <<Msg("=== SPRITE INFO ===", <<>>),
      Msg("Dimensions", <<h.w, h.h>>),
      Msg("Color Mode", <<h.colorMode>>),
      Msg("Layer Count", <<layerCount(h)>>),
      Msg("Current Layer", <<h.active>>),
      Msg("Current Frame", <<0>>),
      Msg("--- LAYER DETAILS ---", <<>>)>>

\* the lines of the first n layers
InfoLayers(h, n) ==
    [i \in 1 .. n |->
        Msg("Layer", <<i - 1, layer(h, i - 1).name, layer(h, i - 1).isVisible,
                       layer(h, i - 1).isEditable>>)]

get_sprite_info ==
    /\ Begin([name |-> "get_sprite_info"])
    /\ IF ~host.sprite
         THEN Finish(host, <<Msg("No active sprite", <<>>)>>, <<>>)
         ELSE LET calls == [i \in 1 .. layerCount(host) |-> Call("layer", <<i - 1>>)]
                  part == [k \in 1 .. layerCount(host) |->
                              InfoHeader(host) \o InfoLayers(host, k - 1)]
              IN  RunCallsOut("get_sprite_info", calls, part,
                              InfoHeader(host) \o InfoLayers(host, layerCount(host)))

\* ------------------------------------------------------------- set_active_layer
\* layerNumber >= 0 && layerNumber < sprite.layerCount
LayerInRange(h, layerNumber) == layerNumber >= 0 /\ layerNumber < layerCount(h)

set_active_layer(layer_number) ==
    /\ Begin([name |-> "set_active_layer", layer_number |-> layer_number])
    /\ IF ~host.sprite
         THEN Finish(host, <<Msg("No active sprite", <<>>)>>, <<>>)
       ELSE IF LayerInRange(host, layer_number)
         THEN RunCalls("set_active_layer", <<Call("layer", <<layer_number>>)>>,
                       <<Msg("Switching to layer", <<layer_number, layer(host, layer_number).name>>),
                         Msg("Note: Layer switching via script may be limited. Use UI to switch layers.", <<>>),
                         Msg("Current active layer", <<host.active>>)>>)
       ELSE Finish(host, <<Msg("Layer number is out of range", <<layer_number, layerCount(host) - 1>>)>>, <<>>)

\* ------------------------------------------------------------- delete_layer
\* (faulty variant) the refusal is made only for a sprite without layers
OnlyLayerLeftOffByOne(h) == layerCount(h) < 1

\* sprite.layerCount <= 1
OnlyLayerLeft(h) == layerCount(h) <= 1

\* the script looks the layer up for its name and then invokes RemoveLayer
\* with no parameter set
delete_layer(layer_number) ==
    /\ Begin([name |-> "delete_layer", layer_number |-> layer_number])
    /\ IF ~host.sprite
         THEN Finish(host, <<Msg("No active sprite", <<>>)>>, <<>>)
       ELSE IF LayerInRange(host, layer_number)
         THEN IF OnlyLayerLeft(host)
                THEN Finish(host, <<Msg("Cannot delete the only remaining layer", <<>>)>>, <<>>)
                ELSE LET calls == <<Call("layer", <<layer_number>>), Call("RemoveLayer", <<>>)>>
                         h2 == ApplyCalls(host, calls)
                     IN  RunCalls("delete_layer", calls,
                                  <<Msg("Deleted layer", <<layer_number, layer(host, layer_number).name>>),
                                    Msg("Sprite now has layer(s)", <<layerCount(h2)>>)>>)
       ELSE Finish(host, <<Msg("Layer number is out of range", <<layer_number, layerCount(host) - 1>>)>>, <<>>)

\* the next request arrives
NextRequest ==
    /\ pc = "done"
    /\ pc' = "idle"
    /\ op' = [name |-> "none"]
    /\ out' = <<>>
    /\ log' = <<>>
    /\ pre' = host
    /\ fault' \in 0 .. MaxFault
    /\ UNCHANGED <<host, loc, escaped, prev>>
    /\ UNCHANGED proxyVars

\* the client sends the request just evaluated a second time
RepeatRequest ==
    /\ pc = "done"
    /\ prev.name = "none"
    /\ pc' = "idle"
    /\ prev' = op
    /\ op' = [name |-> "none"]
    /\ out' = <<>>
    /\ log' = <<>>
    /\ pre' = host
    /\ UNCHANGED <<host, loc, fault, escaped>>
    /\ UNCHANGED proxyVars

\* ------------------------------------------------------------- draw_rectangle
\* for (py = y; py < y + height; py++) for (px = x; px < x + width; px++)
RectFilled(h, x, y, width, height, c) ==
    LET n == IF width > 0 /\ height > 0 THEN width * height ELSE 0
        all == [i \in 1 .. n |-> <<x + ((i - 1) % width), y + ((i - 1) \div width)>>]
        in(p) == InBounds(h, p[1], p[2])
        kept == SelectSeq(all, in)
    IN  [i \in 1 .. Len(kept) |-> Put(kept[i][1], kept[i][2], c)]

\* (faulty variant) the bottom and right edges one pixel too far
RectOutlineOffByOne(h, x, y, width, height, c) ==
    LET nw == IF width > 0 THEN 2 * width ELSE 0
        nh == IF height > 0 THEN 2 * height ELSE 0
        rows == [i \in 1 .. nw |->
                    <<x + ((i - 1) \div 2), IF i % 2 = 1 THEN y ELSE y + height>>]
        cols == [i \in 1 .. nh |->
                    <<IF i % 2 = 1 THEN x ELSE x + width, y + ((i - 1) \div 2)>>]
        in(p) == InBounds(h, p[1], p[2])
        kept == SelectSeq(rows, in) \o SelectSeq(cols, in)
    IN  [i \in 1 .. Len(kept) |-> Put(kept[i][1], kept[i][2], c)]

\* top and bottom edges (one loop over px, two writes), then left and right
\* edges (one loop over py, two writes)
RectOutline(h, x, y, width, height, c) ==
    LET nw == IF width > 0 THEN 2 * width ELSE 0
        nh == IF height > 0 THEN 2 * height ELSE 0
        rows == [i \in 1 .. nw |->
                    <<x + ((i - 1) \div 2), IF i % 2 = 1 THEN y ELSE y + height - 1>>]
        cols == [i \in 1 .. nh |->
                    <<IF i % 2 = 1 THEN x ELSE x + width - 1, y + ((i - 1) \div 2)>>]
        in(p) == InBounds(h, p[1], p[2])
        kept == SelectSeq(rows, in) \o SelectSeq(cols, in)
    IN  [i \in 1 .. Len(kept) |-> Put(kept[i][1], kept[i][2], c)]

draw_rectangle(x, y, width, height, col, filled) ==
    /\ Begin([name |-> "draw_rectangle", x |-> x, y |-> y, width |-> width,
              height |-> height, col |-> col, filled |-> filled])
    /\ PixelScript("draw_rectangle",
                   <<Call("rgba", col)>> \o
                     (IF filled
                        THEN RectFilled(host, x, y, width, height, Enc(col))
                        ELSE RectOutline(host, x, y, width, height, Enc(col))),
                   <<Msg("Drew rectangle", <<filled, x, y, width, height>>)>>)

\* ------------------------------------------------------------- replace_color
\* (faulty variant) the match also compares alpha with the 255 of oldColor
ReplaceMatchesWithAlpha(pixelColor, old) ==
    /\ rgbaR(pixelColor) = old[1]
    /\ rgbaG(pixelColor) = old[2]
    /\ rgbaB(pixelColor) = old[3]
    /\ rgbaA(pixelColor) = 255

\* col.rgbaR(pixelColor) === old_r && col.rgbaG(...) === old_g && col.rgbaB(...) === old_b
ReplaceMatches(pixelColor, old) ==
    /\ rgbaR(pixelColor) = old[1]
    /\ rgbaG(pixelColor) = old[2]
    /\ rgbaB(pixelColor) = old[3]

\* the calls of one iteration of the inner loop (&& stops at the first mismatch)
ReplaceAt(h, x, y, old, newColor) ==
    LET pixelColor == getPixel(h, x, y)
    IN  <<Get(x, y), Call("rgbaR", <<pixelColor>>)>>
        \o (IF rgbaR(pixelColor) = old[1] THEN <<Call("rgbaG", <<pixelColor>>)>> ELSE <<>>)
        \o (IF rgbaR(pixelColor) = old[1] /\ rgbaG(pixelColor) = old[2]
              THEN <<Call("rgbaB", <<pixelColor>>)>> ELSE <<>>)
        \o (IF ReplaceMatches(pixelColor, old) THEN <<Put(x, y, newColor)>> ELSE <<>>)

\* for (y = 0; y < img.height; y++) for (x = 0; x < img.width; x++)
ReplaceCalls(h, old, newColor) ==
    Concat([i \in 1 .. h.w * h.h |->
              ReplaceAt(h, (i - 1) % h.w, (i - 1) \div h.w, old, newColor)],
           h.w * h.h)

\* replacedCount: one increment per putPixel
CountPuts(calls) == Cardinality({j \in DOMAIN calls : calls[j].prim = "putPixel"})

replace_color(old, new) ==
    /\ Begin([name |-> "replace_color", old |-> old, new |-> new])
    /\ LET calls == <<Call("rgba", <<old[1], old[2], old[3], 255>>), Call("rgba", new)>>
                      \o ReplaceCalls(host, old, Enc(new))
       IN  PixelScript("replace_color", calls,
                       <<Msg("Replaced pixels", <<CountPuts(calls), old, new>>)>>)

\* ------------------------------------------------------------- put_pixel
\* (faulty variant) the bounds test left out
put_pixelUnchecked(x, y, col) ==
    /\ Begin([name |-> "put_pixel", x |-> x, y |-> y, col |-> col])
    /\ PixelScript("put_pixel",
                   <<Call("rgba", col), Put(x, y, Enc(col))>>,
                   <<Msg("Set pixel", <<x, y, col>>)>>)

\* if (x >= 0 && x < img.width && y >= 0 && y < img.height) { rgba, putPixel,
\* log } else { log }
put_pixel(x, y, col) ==
    /\ Begin([name |-> "put_pixel", x |-> x, y |-> y, col |-> col])
    /\ IF InBounds(host, x, y)
         THEN PixelScript("put_pixel",
                          <<Call("rgba", col), Put(x, y, Enc(col))>>,
                          <<Msg("Set pixel", <<x, y, col>>)>>)
         ELSE PixelScript("put_pixel", <<>>,
                          <<Msg("Pixel coordinates are out of bounds", <<x, y>>)>>)

\* ------------------------------------------------------------- fill_layer
fill_layer(col) ==
    /\ Begin([name |-> "fill_layer", col |-> col])
    /\ PixelScript("fill_layer",
                   <<Call("rgba", col), Call("clear", <<Enc(col)>>)>>,
                   <<Msg("Filled active layer", <<col>>)>>)

\* ------------------------------------------------------------- draw_circle
\* filled ? distance <= radius : Math.abs(distance - radius) < 1, with
\* distance = Math.sqrt(dx * dx + dy * dy), in integers
CircleTest(dx, dy, radius, filled) ==
    LET n == dx * dx + dy * dy
    IN  IF filled
          THEN n <= radius * radius
          ELSE /\ n < (radius + 1) * (radius + 1)
               /\ (radius = 0 \/ n > (radius - 1) * (radius - 1))

\* for (y = cy - radius; y <= cy + radius; y++) for (x = cx - radius; ...)
CircleCalls(h, cx, cy, radius, c, filled) ==
    LET side == IF radius >= 0 THEN 2 * radius + 1 ELSE 0
        all == [i \in 1 .. side * side |->
                   <<((i - 1) % side) - radius, ((i - 1) \div side) - radius>>]
        keep(d) == InBounds(h, cx + d[1], cy + d[2]) /\ CircleTest(d[1], d[2], radius, filled)
        kept == SelectSeq(all, keep)
    IN  [i \in 1 .. Len(kept) |-> Put(cx + kept[i][1], cy + kept[i][2], c)]

draw_circle(cx, cy, radius, col, filled) ==
    /\ Begin([name |-> "draw_circle", cx |-> cx, cy |-> cy, radius |-> radius,
              col |-> col, filled |-> filled])
    /\ PixelScript("draw_circle",
                   <<Call("rgba", col)>> \o CircleCalls(host, cx, cy, radius, Enc(col), filled),
                   <<Msg("Drew circle", <<filled, cx, cy, radius>>)>>)

\* ------------------------------------------------------------- draw_ellipse
\* ellipseEq = dx*dx / (a*a) + dy*dy / (b*b) with a = width / 2, b = height / 2:
\* filled: ellipseEq <= 1; outline: Math.abs(ellipseEq - 1) < 0.1.  In
\* integers, times a*a*b*b; with width or height 0 the quotient is not a
\* number and both tests fail.
EllipseTest(dx, dy, width, height, filled) ==
    LET e == 4 * dx * dx * height * height + 4 * dy * dy * width * width
        m == width * width * height * height
    IN  /\ width # 0 /\ height # 0
        /\ IF filled THEN e <= m ELSE 9 * m < 10 * e /\ 10 * e < 11 * m

\* for (y = cy - Math.ceil(b); y <= cy + Math.ceil(b); y++) for (x = cx - Math.ceil(a); ...)
EllipseCalls(h, cx, cy, width, height, c, filled) ==
    LET ca == (width + 1) \div 2
        cb == (height + 1) \div 2
        sw == IF ca >= 0 THEN 2 * ca + 1 ELSE 0
        sh == IF cb >= 0 THEN 2 * cb + 1 ELSE 0
        all == [i \in 1 .. sw * sh |-> <<((i - 1) % sw) - ca, ((i - 1) \div sw) - cb>>]
        keep(d) ==
            /\ InBounds(h, cx + d[1], cy + d[2])
            /\ EllipseTest(d[1], d[2], width, height, filled)
        kept == SelectSeq(all, keep)
    IN  [i \in 1 .. Len(kept) |-> Put(cx + kept[i][1], cy + kept[i][2], c)]

draw_ellipse(cx, cy, width, height, col, filled) ==
    /\ Begin([name |-> "draw_ellipse", cx |-> cx, cy |-> cy, width |-> width,
              height |-> height, col |-> col, filled |-> filled])
    /\ PixelScript("draw_ellipse",
                   <<Call("rgba", col)>>
                     \o EllipseCalls(host, cx, cy, width, height, Enc(col), filled),
                   <<Msg("Drew ellipse", <<filled, cx, cy, width, height>>)>>)

\* ------------------------------------------------------------- draw_line
Abs(n) == IF n < 0 THEN 0 - n ELSE n

\* (faulty variant) the stamp's half-width rounded up
HalfCeil(thickness) == (thickness + 1) \div 2

\* Math.floor(thickness/2)
Half(thickness) == thickness \div 2

\* the stamp around (x, y): for ty, for tx, bounds test, thickness test
Stamp(h, x, y, thickness, c) ==
    LET k == Half(thickness)
        side == IF k >= 0 THEN 2 * k + 1 ELSE 0
        all == [i \in 1 .. side * side |->
                   <<((i - 1) % side) - k, ((i - 1) \div side) - k>>]
        keep(t) ==
            /\ InBounds(h, x + t[1], y + t[2])
            /\ (thickness = 1 \/ 4 * (t[1] * t[1] + t[2] * t[2]) <= thickness * thickness)
        kept == SelectSeq(all, keep)
    IN  [i \in 1 .. Len(kept) |-> Put(x + kept[i][1], y + kept[i][2], c)]

\* (faulty variant) the step in x tested with e2 > dy
LineAdvanceSign(l) ==
    LET e2 == 2 * l.err
        stepX == e2 > l.dy
        stepY == e2 < l.dx
    IN  [l EXCEPT !.err = @ - (IF stepX THEN l.dy ELSE 0) + (IF stepY THEN l.dx ELSE 0),
                  !.x = IF stepX THEN @ + l.sx ELSE @,
                  !.y = IF stepY THEN @ + l.sy ELSE @]

\* e2 = 2 * err; if (e2 > -dy) { err -= dy; x += sx }; if (e2 < dx) { err += dx; y += sy }
LineAdvance(l) ==
    LET e2 == 2 * l.err
        stepX == e2 > 0 - l.dy
        stepY == e2 < l.dx
    IN  [l EXCEPT !.err = @ - (IF stepX THEN l.dy ELSE 0) + (IF stepY THEN l.dx ELSE 0),
                  !.x = IF stepX THEN @ + l.sx ELSE @,
                  !.y = IF stepY THEN @ + l.sy ELSE @]

draw_line_start(x1, y1, x2, y2, col, thickness) ==
    /\ Begin([name |-> "draw_line", x1 |-> x1, y1 |-> y1, x2 |-> x2, y2 |-> y2,
              col |-> col, thickness |-> thickness])
    /\ IF ~host.sprite
         THEN Finish(host, <<Msg("No active sprite", <<>>)>>, <<>>)
       ELSE IF ~host.image
         THEN Finish(host, <<Msg("No active image", <<>>)>>, <<>>)
       ELSE IF fault = 1
         THEN Caught("draw_line", host, <<>>, <<Call("rgba", col)>>)
       ELSE /\ pc' = "line"
            /\ loc' = [x |-> x1, y |-> y1,
                       dx |-> Abs(x2 - x1), dy |-> Abs(y2 - y1),
                       sx |-> IF x1 < x2 THEN 1 ELSE -1,
                       sy |-> IF y1 < y2 THEN 1 ELSE -1,
                       err |-> Abs(x2 - x1) - Abs(y2 - y1),
                       lineColor |-> Enc(col),
                       path |-> <<>>]
            /\ log' = <<Call("rgba", col)>>
            /\ out' = <<>>
            /\ escaped' = FALSE
            /\ UNCHANGED host

\* one iteration of while (true): stamp, test for the end point, advance
draw_line_step ==
    /\ pc = "line"
    /\ UNCHANGED <<op, pre, fault, prev>>
    /\ UNCHANGED proxyVars
    /\ LET stamps == Stamp(host, loc.x, loc.y, op.thickness, loc.lineColor)
           k == fault - Len(log)
       IN  IF k \in 1 .. Len(stamps)
             THEN Caught("draw_line", ApplyCalls(host, SubSeq(stamps, 1, k - 1)), out,
                         log \o SubSeq(stamps, 1, k))
           ELSE IF loc.x = op.x2 /\ loc.y = op.y2
             THEN /\ host' = ApplyCalls(host, stamps)
                  /\ out' = <<Msg("Drew line", <<op.x1, op.y1, op.x2, op.y2, op.thickness>>)>>
                  /\ log' = log \o stamps
                  /\ pc' = "done"
                  /\ loc' = [loc EXCEPT !.path = Append(@, <<loc.x, loc.y>>)]
                  /\ escaped' = FALSE
           ELSE /\ host' = ApplyCalls(host, stamps)
                /\ log' = log \o stamps
                /\ loc' = [LineAdvance(loc) EXCEPT !.path = Append(@, <<loc.x, loc.y>>)]
                /\ UNCHANGED <<pc, out, escaped>>

\* ------------------------------------------------------------- flood_fill
\* (faulty variant) the pushes of an 8-connected fill
Neighbours8(x, y) ==
    <<<<x + 1, y>>, <<x - 1, y>>, <<x, y + 1>>, <<x, y - 1>>,
      <<x + 1, y + 1>>, <<x - 1, y - 1>>, <<x + 1, y - 1>>, <<x - 1, y + 1>>>>

\* the four pushes of one loop iteration, in the order of the code
Neighbours(x, y) == <<<<x + 1, y>>, <<x - 1, y>>, <<x, y + 1>>, <<x, y - 1>>>>

\* (faulty variant) the short-circuit test left out
SameColourNever(targetColor, fillColor) == FALSE

\* targetColor === fillColor
SameColour(targetColor, fillColor) == targetColor = fillColor

\* (faulty variant) a pixel that already has the fill colour is filled again
IsTargetOrFill(h, x, y, targetColor) == getPixel(h, x, y) \in {targetColor, loc.fillColor}

\* the negation of img.getPixel(x, y) !== targetColor
IsTarget(h, x, y, targetColor) == getPixel(h, x, y) = targetColor

flood_fill_start(x, y, col) ==
    /\ Begin([name |-> "flood_fill", x |-> x, y |-> y, col |-> col])
    /\ LET cRgba == Call("rgba", col)
           cGet == Get(x, y)
       IN  IF ~host.sprite
             THEN Finish(host, <<Msg("No active sprite", <<>>)>>, <<>>)
           ELSE IF ~host.image
             THEN Finish(host, <<Msg("No active image", <<>>)>>, <<>>)
           ELSE IF ~InBounds(host, x, y)
             THEN Finish(host, <<Msg("Start coordinates are out of bounds", <<x, y>>)>>, <<>>)
           ELSE IF fault = 1
             THEN Caught("flood_fill", host, <<>>, <<cRgba>>)
           ELSE IF fault = 2
             THEN Caught("flood_fill", host, <<>>, <<cRgba, cGet>>)
           ELSE LET fillColor == Enc(col)
                    targetColor == getPixel(host, x, y)
                IN  IF SameColour(targetColor, fillColor)
                      THEN Finish(host,
                                  <<Msg("Target color is the same as fill color, no action needed", <<>>)>>,
                                  <<cRgba, cGet>>)
                      ELSE /\ pc' = "flood"
                           /\ loc' = [stack |-> <<<<x, y>>>>, fillCount |-> 0,
                                      targetColor |-> targetColor, fillColor |-> fillColor]
                           /\ log' = <<cRgba, cGet>>
                           /\ out' = <<>>
                           /\ escaped' = FALSE
                           /\ UNCHANGED host

\* one iteration of while (stack.length > 0)
flood_fill_step ==
    /\ pc = "flood"
    /\ Len(loc.stack) > 0
    /\ UNCHANGED <<op, pre, fault, prev>>
    /\ UNCHANGED proxyVars
    /\ LET n == Len(loc.stack)
           x == loc.stack[n][1]
           y == loc.stack[n][2]
           rest == SubSeq(loc.stack, 1, n - 1)
           cGet == Get(x, y)
           cPut == Put(x, y, loc.fillColor)
           continue(l2) ==
               /\ loc' = [loc EXCEPT !.stack = rest]
               /\ log' = l2
               /\ UNCHANGED <<host, pc, out, escaped>>
       IN  IF ~InBounds(host, x, y)
             THEN continue(log)
           ELSE IF Throws(1)
             THEN Caught("flood_fill", host, out, Append(log, cGet))
           ELSE IF ~IsTarget(host, x, y, loc.targetColor)
             THEN continue(Append(log, cGet))
           ELSE IF Throws(2)
             THEN Caught("flood_fill", host, out, log \o <<cGet, cPut>>)
           ELSE /\ host' = putPixel(host, x, y, loc.fillColor)
                /\ loc' = [loc EXCEPT !.stack = rest \o Neighbours(x, y),
                                      !.fillCount = @ + 1]
                /\ log' = log \o <<cGet, cPut>>
                /\ UNCHANGED <<pc, out, escaped>>

\* the loop ends: report the count
flood_fill_end ==
    /\ pc = "flood"
    /\ Len(loc.stack) = 0
    /\ UNCHANGED <<op, pre, fault, prev>>
    /\ UNCHANGED proxyVars
    /\ Finish(host, <<Msg("Flood fill completed", <<op.x, op.y, loc.fillCount>>)>>, log)

\* ------------------------------------------------------------- execution proxy
\* Tool invocations 1 .. MaxCalls, each made with one of two session handles.
\* run_script(script, ctx) blocks its caller until the host has evaluated the
\* script or the wait has timed out; the proxy keeps the invocations of one
\* session in their order of arrival and hands the host one script at a time.
Calls == 1 .. MaxCalls
Sessions == {"s1", "s2"}

Remove(q, i) == LET keep(j) == j # i IN SelectSeq(q, keep)

InitProxy ==
    /\ stage = [i \in Calls |-> "new"]
    /\ ctx = [i \in Calls |-> "none"]
    /\ queue = [s \in Sessions |-> <<>>]
    /\ evaluating = [s \in Sessions |-> {}]
    /\ arrived = [s \in Sessions |-> <<>>]
    /\ submitted = [s \in Sessions |-> <<>>]

\* a tool is invoked: return self._libresprite_proxy.run_script(script, ctx)
run_script(i, s) ==
    /\ stage[i] = "new"
    /\ stage' = [stage EXCEPT ![i] = "waiting"]
    /\ ctx' = [ctx EXCEPT ![i] = s]
    /\ queue' = [queue EXCEPT ![s] = Append(@, i)]
    /\ arrived' = [arrived EXCEPT ![s] = Append(@, i)]
    /\ UNCHANGED <<evaluating, submitted>>
    /\ UNCHANGED evalVars

\* (faulty variant) no serialization: any waiting invocation may submit
HoldsSessionAlways(i) == TRUE

\* the per-session serialization: the invocation that arrived first holds it
HoldsSession(i) == queue[ctx[i]] # <<>> /\ Head(queue[ctx[i]]) = i

\* the proxy hands the script to the host session, which starts evaluating it
Submit(i) ==
    /\ stage[i] = "waiting"
    /\ HoldsSession(i)
    /\ stage' = [stage EXCEPT ![i] = "submitted"]
    /\ evaluating' = [evaluating EXCEPT ![ctx[i]] = @ \cup {i}]
    /\ submitted' = [submitted EXCEPT ![ctx[i]] = Append(@, i)]
    /\ UNCHANGED <<ctx, queue, arrived>>
    /\ UNCHANGED evalVars

\* the host finishes evaluating a script (a stuck evaluation never does)
HostCompletes(i) ==
    /\ ctx[i] \in Sessions
    /\ i \in evaluating[ctx[i]]
    /\ evaluating' = [evaluating EXCEPT ![ctx[i]] = @ \ {i}]
    /\ UNCHANGED <<stage, ctx, queue, arrived, submitted>>
    /\ UNCHANGED evalVars

\* the proxy returns the captured output and releases the session
Return(i) ==
    /\ stage[i] = "submitted"
    /\ i \notin evaluating[ctx[i]]
    /\ stage' = [stage EXCEPT ![i] = "returned"]
    /\ queue' = [queue EXCEPT ![ctx[i]] = Remove(@, i)]
    /\ UNCHANGED <<ctx, evaluating, arrived, submitted>>
    /\ UNCHANGED evalVars

\* (faulty variant) the timeout is reported but the session is not released
TimeoutKeepsSession(i) ==
    /\ stage[i] = "submitted"
    /\ i \in evaluating[ctx[i]]
    /\ stage' = [stage EXCEPT ![i] = "timed out"]
    /\ UNCHANGED <<ctx, queue, evaluating, arrived, submitted>>
    /\ UNCHANGED evalVars

\* the wait for the host times out: the proxy reports it and releases the
\* session; the script is not aborted in the host
Timeout(i) ==
    /\ stage[i] = "submitted"
    /\ i \in evaluating[ctx[i]]
    /\ stage' = [stage EXCEPT ![i] = "timed out"]
    /\ queue' = [queue EXCEPT ![ctx[i]] = Remove(@, i)]
    /\ UNCHANGED <<ctx, evaluating, arrived, submitted>>
    /\ UNCHANGED evalVars

\* ------------------------------------------------------------- specifications
\* the arguments of the requests: coordinates up to Margin off the surface,
\* sizes up to Margin larger than it
ArgX == (0 - Margin) .. (ImgW - 1 + Margin)
ArgY == (0 - Margin) .. (ImgH - 1 + Margin)
ArgW == 0 .. (ImgW + Margin)
ArgH == 0 .. (ImgH + Margin)
OldColours == {<<255, 0, 0>>, <<0, 0, 255>>, <<0, 255, 0>>}

Surfaces(pal) == [Coords(ImgW, ImgH) -> pal]
OneLayer == <<Layer(1, <<"L", "1">>)>>

InitEval ==
    /\ pc = "idle"
    /\ op = [name |-> "none"]
    /\ loc = NoLoc
    /\ out = <<>>
    /\ log = <<>>
    /\ escaped = FALSE
    /\ pre = host
    /\ prev = [name |-> "none"]
    /\ InitProxy

\* flood fill on every two-colour surface, no host fault
InitFlood ==
    /\ host \in {Host(TRUE, TRUE, px, OneLayer, 0) : px \in Surfaces(Palette2)}
    /\ fault = 0
    /\ InitEval

NextFlood ==
    \/ \E x \in ArgX, y \in ArgY, col \in ArgColours : flood_fill_start(x, y, col)
    \/ flood_fill_step
    \/ flood_fill_end

SpecFlood == InitFlood /\ [][NextFlood]_vars

\* the host goes on evaluating a script it has started: the loop takes its
\* next iteration and the statement after the loop is reached
SpecFloodLive ==
    SpecFlood /\ WF_vars(flood_fill_step) /\ WF_vars(flood_fill_end)

\* rectangles on one surface, no host fault
BlankSurface == [p \in Coords(ImgW, ImgH) |-> Enc(Blue)]
InitRect ==
    /\ host = Host(TRUE, TRUE, BlankSurface, OneLayer, 0)
    /\ fault = 0
    /\ InitEval

NextRect ==
    \E x \in ArgX, y \in ArgY, width \in ArgW, height \in ArgH,
       col \in ArgColours, filled \in BOOLEAN :
        draw_rectangle(x, y, width, height, col, filled)

SpecRect == InitRect /\ [][NextRect]_vars

\* colour replacement on every surface of the palette, no host fault
InitReplace ==
    /\ host \in {Host(TRUE, TRUE, px, OneLayer, 0) : px \in Surfaces(Palette)}
    /\ fault = 0
    /\ InitEval

NextReplace ==
    \E old \in OldColours, new \in ArgColours : replace_color(old, new)

SpecReplace == InitReplace /\ [][NextReplace]_vars

\* lines on one surface, no host fault
InitLine == InitRect

NextLine ==
    \/ \E x1 \in ArgX, y1 \in ArgY, x2 \in ArgX, y2 \in ArgY,
          thickness \in 1 .. MaxThickness :
            draw_line_start(x1, y1, x2, y2, Red, thickness)
    \/ draw_line_step

SpecLine == InitLine /\ [][NextLine]_vars

\* layer requests one after another on a sprite of 1 .. MaxLayers layers,
\* any of them the active one; the host may throw
InitialLayers(k) == [i \in 1 .. k |-> Layer(i, <<"L">>)]
LayerNames == {<<Letter, Letter>>}
LayerNumbers == -1 .. MaxLayers

InitLayers ==
    /\ \E k \in 1 .. MaxLayers, a \in 0 .. MaxLayers - 1 :
          /\ a < k
          /\ host = Host(TRUE, TRUE, BlankSurface, InitialLayers(k), a)
    /\ fault \in 0 .. MaxFault
    /\ InitEval

NextLayers ==
    \/ \E name \in LayerNames : layerCount(host) < MaxLayers /\ create_layer(name)
    \/ \E n \in LayerNumbers : delete_layer(n)
    \/ \E n \in LayerNumbers : set_active_layer(n)
    \/ get_sprite_info
    \/ NextRequest

SpecLayers == InitLayers /\ [][NextLayers]_vars

\* one request of any template on a host with or without an active sprite
\* and an active image; the host may throw at any of its first MaxFault calls
MixedSurface ==
    [p \in Coords(ImgW, ImgH) |-> IF (p[1] + p[2]) % 2 = 0 THEN Enc(Red) ELSE Enc(Blue)]
FewX == {0 - Margin, 1}
FewY == {0, ImgH}
FewSizes == {0, 2}
ColorModes == {"RGB", "indexed"}

InitAll ==
    /\ \E sp \in BOOLEAN, im \in BOOLEAN, a \in 0 .. 1 :
          host = Host(sp, im, MixedSurface, InitialLayers(2), a)
    /\ fault \in 0 .. MaxFault
    /\ InitEval

NextAll ==
    \/ \E m \in ColorModes, ok \in BOOLEAN : create_sprite(ImgW - 1, ImgH, m, ok)
    \/ \E name \in LayerNames : create_layer(name)
    \/ fill_layer(Blue)
    \/ \E cx \in FewX, cy \in FewY, radius \in 0 .. 1, filled \in BOOLEAN :
          draw_circle(cx, cy, radius, Blue, filled)
    \/ get_sprite_info
    \/ \E x \in FewX, y \in FewY, width \in FewSizes, height \in FewSizes, filled \in BOOLEAN :
          draw_rectangle(x, y, width, height, Blue, filled)
    \/ \E x1 \in FewX, y1 \in FewY, x2 \in FewX, y2 \in FewY, thickness \in 1 .. 2 :
          draw_line_start(x1, y1, x2, y2, Blue, thickness)
    \/ draw_line_step
    \/ \E cx \in FewX, cy \in FewY, width \in FewSizes, height \in FewSizes, filled \in BOOLEAN :
          draw_ellipse(cx, cy, width, height, Blue, filled)
    \/ \E x \in FewX, y \in FewY : put_pixel(x, y, Blue)
    \/ \E x \in FewX, y \in FewY, col \in {Red, Blue} : flood_fill_start(x, y, col)
    \/ flood_fill_step
    \/ flood_fill_end
    \/ \E n \in {0, 2} : set_active_layer(n)
    \/ \E n \in {0, 2} : delete_layer(n)
    \/ \E old \in {<<255, 0, 0>>}, new \in {Blue, RedFaint} : replace_color(old, new)

SpecAll == InitAll /\ [][NextAll]_vars

\* a flood fill or a pixel write on every two-colour surface, and the same
\* request a second time; no host fault
SameAsBefore(request) == prev.name = "none" \/ prev = request

NextTwice ==
    \/ \E x \in ArgX, y \in ArgY, col \in ArgColours :
          /\ SameAsBefore([name |-> "flood_fill", x |-> x, y |-> y, col |-> col])
          /\ flood_fill_start(x, y, col)
    \/ flood_fill_step
    \/ flood_fill_end
    \/ \E x \in ArgX, y \in ArgY, col \in ArgColours :
          /\ SameAsBefore([name |-> "put_pixel", x |-> x, y |-> y, col |-> col])
          /\ put_pixel(x, y, col)
    \/ RepeatRequest

SpecTwice == InitFlood /\ [][NextTwice]_vars

\* concurrent tool invocations over two sessions; the evaluation of a
\* submitted script may never complete
NextProxy ==
    \E i \in Calls :
        \/ \E s \in Sessions : run_script(i, s)
        \/ Submit(i)
        \/ HostCompletes(i)
        \/ Return(i)
        \/ Timeout(i)

SpecProxy == InitRect /\ [][NextProxy]_vars

\* the proxy's steps are taken when they can be: a waiting invocation that
\* holds its session is submitted, and the wait of a submitted one ends, by
\* the return of the output or by the timeout.  The host's completion is
\* not guaranteed.
FairProxy ==
    \A i \in Calls :
        /\ WF_vars(Submit(i))
        /\ WF_vars(Return(i) \/ Timeout(i))

SpecProxyLive == SpecProxy /\ FairProxy

\* create_layer with every name of up to MaxNameLen characters; no host fault
RECURSIVE Texts(_)
Texts(n) ==
    IF n = 0 THEN {<<>>}
    ELSE Texts(n - 1) \cup {Append(t, c) : t \in Texts(n - 1), c \in NameChars}

InitNames ==
    /\ host = Host(TRUE, TRUE, BlankSurface, OneLayer, 0)
    /\ fault = 0
    /\ InitEval

NextNames == \E name \in Texts(MaxNameLen) : create_layer(name)

SpecNames == InitNames /\ [][NextNames]_vars

\* every drawing request on a plain and on a chequered surface, with
\* coordinates up to Margin off it, sizes from -1 to Margin more than it and
\* thicknesses from -1; no host fault
ArgSizes == -1 .. (ImgH + Margin)
ArgThickness == -1 .. MaxThickness
InitDraw ==
    /\ host \in {Host(TRUE, TRUE, px, OneLayer, 0) : px \in {MixedSurface, BlankSurface}}
    /\ fault = 0
    /\ InitEval

NextDraw ==
    \/ \E x \in ArgX, y \in ArgY, width \in ArgSizes, height \in ArgSizes, filled \in BOOLEAN :
          draw_rectangle(x, y, width, height, Red, filled)
    \/ \E cx \in ArgX, cy \in ArgY, radius \in ArgSizes, filled \in BOOLEAN :
          draw_circle(cx, cy, radius, Red, filled)
    \/ \E cx \in ArgX, cy \in ArgY, width \in ArgSizes, height \in ArgSizes, filled \in BOOLEAN :
          draw_ellipse(cx, cy, width, height, Red, filled)
    \/ \E x1 \in ArgX, y1 \in ArgY, x2 \in FewX, y2 \in FewY, thickness \in ArgThickness :
          draw_line_start(x1, y1, x2, y2, Red, thickness)
    \/ draw_line_step
    \/ \E x \in ArgX, y \in ArgY : put_pixel(x, y, Red)
    \/ \E x \in ArgX, y \in ArgY : flood_fill_start(x, y, Blue)
    \/ flood_fill_step
    \/ flood_fill_end

SpecDraw == InitDraw /\ [][NextDraw]_vars

\* ------------------------------------------------------------- flood fill: claims
\* the 4-connected component of the seed among the pixels of the seed's colour
RECURSIVE Grow(_, _, _)
Grow(px, c, S) ==
    LET T == S \cup {q \in DOMAIN px :
                        /\ px[q] = c
                        /\ \E p \in S : \/ (p[1] = q[1] /\ (p[2] - q[2]) \in {-1, 1})
                                        \/ (p[2] = q[2] /\ (p[1] - q[1]) \in {-1, 1})}
    IN  IF T = S THEN S ELSE Grow(px, c, T)
Component4(px, seed) == Grow(px, px[seed], {seed})

FloodSeeded ==
    /\ op.name = "flood_fill"
    /\ pre.sprite /\ pre.image
    /\ InBounds(pre, op.x, op.y)
    /\ fault = 0

FloodRan ==
    /\ FloodSeeded
    /\ pc = "done"
    /\ pre.pixels[<<op.x, op.y>>] # Enc(op.col)

\* C1: after a flood fill whose fill colour differs from the seed's colour,
\* the pixels that changed are exactly the 4-connected component of the seed
\* among the pixels of the seed's original colour, each holds the fill
\* colour, all others are unchanged, and the printed count is its size.
C1_FloodFillsComponent ==
    FloodRan =>
        LET comp == Component4(pre.pixels, <<op.x, op.y>>)
        IN  /\ {p \in DOMAIN pre.pixels : host.pixels[p] # pre.pixels[p]} = comp
            /\ \A p \in comp : host.pixels[p] = Enc(op.col)
            /\ \A p \in DOMAIN pre.pixels \ comp : host.pixels[p] = pre.pixels[p]
            /\ out = <<Msg("Flood fill completed", <<op.x, op.y, Cardinality(comp)>>)>>

\* a fill of two or more pixels that leaves a pixel of the same colour
\* (connected only diagonally, or not at all) untouched
C1_Witness ==
    /\ FloodRan
    /\ Cardinality(Component4(pre.pixels, <<op.x, op.y>>)) >= 2
    /\ \E p \in DOMAIN pre.pixels :
          /\ pre.pixels[p] = pre.pixels[<<op.x, op.y>>]
          /\ p \notin Component4(pre.pixels, <<op.x, op.y>>)
          /\ \E q \in Component4(pre.pixels, <<op.x, op.y>>) :
                (p[1] - q[1]) \in {-1, 1} /\ (p[2] - q[2]) \in {-1, 1}

\* C2: a flood fill seeded at an in-bounds pixel that already has the fill
\* colour ends at once with the no-action line, writes no pixel and leaves
\* the surface as it was.
C2_FloodSameColourNoWrite ==
    (FloodSeeded /\ pre.pixels[<<op.x, op.y>>] = Enc(op.col)) =>
        /\ pc = "done"
        /\ Written = {}
        /\ host.pixels = pre.pixels
        /\ out = <<Msg("Target color is the same as fill color, no action needed", <<>>)>>

C2_Witness ==
    /\ FloodSeeded
    /\ pre.pixels[<<op.x, op.y>>] = Enc(op.col)
    /\ pc = "done"
    /\ \E p \in DOMAIN pre.pixels : pre.pixels[p] # Enc(op.col)

\* ------------------------------------------------------------- rectangle: claims
RectOutlineRan ==
    /\ op.name = "draw_rectangle"
    /\ pc = "done"
    /\ ~op.filled
    /\ op.width >= 1 /\ op.height >= 1
    /\ pre.sprite /\ pre.image /\ fault = 0

\* the border of [x, x+w) x [y, y+h): first/last row, first/last column
Border(x, y, w, h) ==
    {p \in (x .. x + w - 1) \X (y .. y + h - 1) :
        p[1] = x \/ p[1] = x + w - 1 \/ p[2] = y \/ p[2] = y + h - 1}

\* C3: an outlined rectangle with w, h >= 1 writes exactly the border pixels
\* of [x, x+w) x [y, y+h) that lie on the surface (and changes no other
\* pixel); for w, h >= 2 these are at most 2w + 2h - 4 distinct pixels.
C3_RectOutlineIsBorder ==
    RectOutlineRan =>
        LET border == Border(op.x, op.y, op.width, op.height)
                        \cap Coords(pre.w, pre.h)
        IN  /\ Written = border
            /\ \A p \in DOMAIN pre.pixels :
                  host.pixels[p] = IF p \in border THEN Enc(op.col) ELSE pre.pixels[p]
            /\ (op.width >= 2 /\ op.height >= 2) =>
                  Cardinality(Written) <= 2 * op.width + 2 * op.height - 4

\* an outline partly off the surface, with an interior pixel left alone
C3_Witness ==
    /\ RectOutlineRan
    /\ op.width >= 3 /\ op.height >= 3
    /\ op.x < 0
    /\ Written # {}
    /\ \E p \in Coords(pre.w, pre.h) :
          /\ p \notin Written
          /\ op.x < p[1] /\ p[1] < op.x + op.width - 1
          /\ op.y < p[2] /\ p[2] < op.y + op.height - 1

\* ------------------------------------------------------------- replace colour: claims
ReplaceRan ==
    /\ op.name = "replace_color"
    /\ pc = "done"
    /\ pre.sprite /\ pre.image /\ fault = 0

RgbIs(c, old) == rgbaR(c) = old[1] /\ rgbaG(c) = old[2] /\ rgbaB(c) = old[3]

\* C4: colour replacement rewrites a pixel to the new colour if and only if
\* its red, green and blue before the run were the old colour's, whatever
\* its alpha; every other pixel is unchanged and the printed count is the
\* number of matching pixels.
C4_ReplaceByRgbOnly ==
    ReplaceRan =>
        LET match == {p \in DOMAIN pre.pixels : RgbIs(pre.pixels[p], op.old)}
        IN  /\ Written = match
            /\ \A p \in match : host.pixels[p] = Enc(op.new) /\ NWrites(p) = 1
            /\ \A p \in DOMAIN pre.pixels \ match : host.pixels[p] = pre.pixels[p]
            /\ out = <<Msg("Replaced pixels", <<Cardinality(match), op.old, op.new>>)>>

\* two pixels of the old RGB with different alphas are both replaced, a
\* third pixel of another colour is not
C4_Witness ==
    /\ ReplaceRan
    /\ \E p, q, r \in DOMAIN pre.pixels :
          /\ RgbIs(pre.pixels[p], op.old) /\ RgbIs(pre.pixels[q], op.old)
          /\ rgbaA(pre.pixels[p]) # rgbaA(pre.pixels[q])
          /\ ~RgbIs(pre.pixels[r], op.old)
          /\ host.pixels[p] = Enc(op.new) /\ host.pixels[q] = Enc(op.new)
          /\ host.pixels[r] = pre.pixels[r]

\* ------------------------------------------------------------- line: claims
LineThin ==
    /\ op.name = "draw_line"
    /\ pc \in {"line", "done"}
    /\ op.thickness = 1
    /\ pre.sprite /\ pre.image /\ fault = 0

Larger(a, b) == IF a >= b THEN a ELSE b
PathPoints == {loc.path[i] : i \in DOMAIN loc.path}

\* C5: a line of thickness 1 writes exactly the surface points of the walk
\* from (x1,y1) to (x2,y2), nothing around them.  The walk starts at
\* (x1,y1), moves by at most 1 in x and in y per step, stays within half a
\* pixel of the straight line, never has more than max(|dx|,|dy|)+1 points,
\* and ends at (x2,y2) with exactly that many.
C5_ThinLineIsWalk ==
    LineThin =>
        LET n == Len(loc.path)
            m == Larger(Abs(op.x2 - op.x1), Abs(op.y2 - op.y1))
        IN  /\ Written = PathPoints \cap Coords(pre.w, pre.h)
            /\ \A p \in Written : host.pixels[p] = Enc(op.col)
            /\ n <= m + 1
            /\ n >= 1 => loc.path[1] = <<op.x1, op.y1>>
            /\ \A i \in 1 .. n - 1 :
                  /\ Abs(loc.path[i + 1][1] - loc.path[i][1]) <= 1
                  /\ Abs(loc.path[i + 1][2] - loc.path[i][2]) <= 1
                  /\ loc.path[i + 1] # loc.path[i]
            /\ \A i \in 1 .. n :
                  2 * Abs((loc.path[i][2] - op.y1) * (op.x2 - op.x1)
                          - (loc.path[i][1] - op.x1) * (op.y2 - op.y1)) <= m
            /\ pc = "done" => (n = m + 1 /\ loc.path[n] = <<op.x2, op.y2>>)

\* a finished slanted walk that starts off the surface and crosses it
C5_Witness ==
    /\ LineThin
    /\ pc = "done"
    /\ ~InBounds(pre, op.x1, op.y1)
    /\ Abs(op.x2 - op.x1) >= 3 /\ Abs(op.y2 - op.y1) \in 1 .. 2
    /\ op.x2 < op.x1
    /\ Cardinality(Written) >= 2

\* ------------------------------------------------------------- layers: claims
LayerIds(h) == {h.layers[i].id : i \in DOMAIN h.layers}

DeleteRan ==
    /\ op.name = "delete_layer"
    /\ pc = "done"
    /\ pre.sprite
    /\ fault = 0

\* C6: delete_layer(layer_number) on a sprite with more than one layer and
\* 0 <= layer_number < layerCount removes the layer at that index: it is
\* gone, every other layer remains, the count is one less.
C6_DeletesRequestedLayer ==
    (DeleteRan /\ layerCount(pre) > 1 /\ op.layer_number \in 0 .. layerCount(pre) - 1) =>
        /\ LayerIds(host) = LayerIds(pre) \ {pre.layers[op.layer_number + 1].id}
        /\ layerCount(host) = layerCount(pre) - 1

\* C7: delete_layer removes nothing when the index is outside
\* [0, layerCount) or when one layer is left: the host is as before, no host
\* command was invoked, and the outcome is one printed line (out of range,
\* or the refusal), not a fault.  So the layer count never falls below 1.
C7_DeleteRefused ==
    /\ host.sprite => layerCount(host) >= 1
    /\ (/\ op.name = "delete_layer"
        /\ pc = "done"
        /\ pre.sprite
        /\ (op.layer_number \notin 0 .. layerCount(pre) - 1 \/ layerCount(pre) = 1)) =>
            /\ host = pre
            /\ log = <<>>
            /\ ~escaped
            /\ out = IF op.layer_number \in 0 .. layerCount(pre) - 1
                       THEN <<Msg("Cannot delete the only remaining layer", <<>>)>>
                       ELSE <<Msg("Layer number is out of range",
                                  <<op.layer_number, layerCount(pre) - 1>>)>>

\* the refusal, on a sprite whose first layer was deleted by an earlier request
C7_Witness ==
    /\ op.name = "delete_layer"
    /\ pc = "done"
    /\ op.layer_number = 0
    /\ layerCount(pre) = 1
    /\ pre.layers[1].id # 1
    /\ out = <<Msg("Cannot delete the only remaining layer", <<>>)>>

\* ------------------------------------------------------------- guards: claims
NoSpriteLine == <<Msg("No active sprite", <<>>)>>
NoImageLine == <<Msg("No active image", <<>>)>>

PixelOps ==
    {"fill_layer", "put_pixel", "draw_rectangle", "draw_circle", "draw_ellipse",
     "draw_line", "flood_fill", "replace_color"}
PixelCalls == {"getPixel", "putPixel", "clear"}

\* C9: a pixel script reads or writes a pixel only when an active sprite and
\* an active image exist; without either it makes no host call, changes
\* nothing and prints which one is absent.
C9_PixelsOnlyWithSurface ==
    op.name \in PixelOps =>
        /\ (\E i \in DOMAIN log : log[i].prim \in PixelCalls) => (pre.sprite /\ pre.image)
        /\ (~pre.sprite \/ ~pre.image) =>
              /\ pc = "done"
              /\ log = <<>>
              /\ host = pre
              /\ ~escaped
              /\ out = IF ~pre.sprite THEN NoSpriteLine ELSE NoImageLine

C9_Witness ==
    /\ op.name = "replace_color"
    /\ pre.sprite /\ ~pre.image
    /\ pc = "done"
    /\ out = NoImageLine

\* C10: a fault thrown by a host primitive ends the script in its catch
\* clause: the throwing call is the last one made, the last line printed is
\* the template's error line, and the fault does not leave the script.
C10_FaultsCaught ==
    /\ ~escaped
    /\ (pc \in {"flood", "line"} /\ fault >= 1) => Len(log) < fault
    /\ (pc = "done" /\ fault >= 1 /\ Len(log) >= fault) =>
          /\ Len(log) = fault
          /\ Len(out) >= 1
          /\ out[Len(out)] = Msg(ErrorText(op.name), <<"e.message">>)

\* RemoveLayer throws in delete_layer, after the layer lookup succeeded
C10_Witness ==
    /\ op.name = "delete_layer"
    /\ pc = "done"
    /\ fault = 2
    /\ Len(log) = 2
    /\ log[2].prim = "RemoveLayer"
    /\ out = <<Msg("Error deleting layer: ", <<"e.message">>)>>
    /\ ~escaped

\* ------------------------------------------------------------- set pixel: claims
PutPixelRan ==
    /\ op.name = "put_pixel"
    /\ pc = "done"
    /\ pre.sprite /\ pre.image /\ fault = 0

OnSurface(h, x, y) == 0 <= x /\ x < h.w /\ 0 <= y /\ y < h.h

\* C11: put_pixel at (x,y) with 0 <= x < width and 0 <= y < height makes
\* one pixel write, of the requested colour at (x,y), changes no other pixel
\* and prints the confirmation with the coordinate and the rgba tuple; at
\* any other (x,y) it makes no host call, leaves the host as it was and
\* prints the out-of-bounds line, which is output and not a fault.
C11_PutPixelBounds ==
    PutPixelRan =>
        IF OnSurface(pre, op.x, op.y)
          THEN /\ log = <<Call("rgba", op.col), Put(op.x, op.y, Enc(op.col))>>
               /\ host = [pre EXCEPT !.pixels[<<op.x, op.y>>] = Enc(op.col)]
               /\ out = <<Msg("Set pixel", <<op.x, op.y, op.col>>)>>
          ELSE /\ log = <<>>
               /\ host = pre
               /\ out = <<Msg("Pixel coordinates are out of bounds", <<op.x, op.y>>)>>
               /\ ~escaped

\* a write on the last column and row that changed the pixel there
C11_Witness ==
    /\ PutPixelRan
    /\ op.x = pre.w - 1 /\ op.y = pre.h - 1
    /\ pre.pixels[<<op.x, op.y>>] # Enc(op.col)
    /\ host.pixels[<<op.x, op.y>>] = Enc(op.col)
    /\ prev.name = "none"

\* ------------------------------------------------------------- execution proxy: claims
IsPrefix(a, b) == Len(a) <= Len(b) /\ a = SubSeq(b, 1, Len(a))

InQueue(i) == \E k \in DOMAIN queue[ctx[i]] : queue[ctx[i]][k] = i

\* an invocation waits for a session in which an evaluation has timed out
WaitsAfterTimeout(i) ==
    /\ stage[i] = "waiting"
    /\ \E j \in Calls : ctx[j] = ctx[i] /\ stage[j] = "timed out"

\* C13: an invocation whose evaluation timed out no longer holds its
\* session, and every invocation waiting for a session in which an
\* evaluation has timed out is eventually submitted to the host, also when
\* the timed-out evaluation never completes.
C13_TimeoutReleases ==
    /\ [](\A j \in Calls : stage[j] = "timed out" => ~InQueue(j))
    /\ \A i \in Calls : WaitsAfterTimeout(i) ~> (stage[i] \in {"submitted", "returned", "timed out"})

\* a script submitted while the evaluation that timed out before it in the
\* same session is still executing
C13_Witness ==
    \E i, j \in Calls :
        /\ ctx[i] = ctx[j] /\ ctx[i] \in Sessions
        /\ stage[j] = "timed out"
        /\ stage[i] = "submitted"
        /\ evaluating[ctx[i]] = {i, j}
        /\ submitted[ctx[i]] = <<j, i>>

\* ------------------------------------------------------------- idempotence: claims
\* the evaluation is the second one of the same request
Repeated == prev.name # "none" /\ op = prev

\* C14: when a flood_fill or put_pixel request is evaluated a second time
\* right after the first, the surface after the second evaluation is the
\* surface after the first; the second flood fill finds the seed in the
\* fill colour (or off the surface) and ends without a pixel write.
C14_TwiceIsOnce ==
    /\ (Repeated /\ pc = "done") => (host.pixels = pre.pixels /\ host = pre)
    /\ (Repeated /\ op.name = "flood_fill") => (pc = "done" /\ Written = {})

\* the first flood fill changed two or more pixels and left another colour
\* on the surface; the second one has ended
C14_Witness ==
    /\ Repeated
    /\ pc = "done"
    /\ op.name = "flood_fill"
    /\ "fillCount" \in DOMAIN loc
    /\ loc.fillCount >= 2
    /\ \E p \in DOMAIN host.pixels : host.pixels[p] # Enc(op.col)

\* the second put_pixel wrote the pixel the first one had changed
C14_WitnessPixel ==
    /\ Repeated
    /\ pc = "done"
    /\ op.name = "put_pixel"
    /\ Written = {<<op.x, op.y>>}
    /\ host.pixels[<<op.x, op.y>>] = Enc(op.col)

\* ------------------------------------------------------------- layer name: claims
\* C15: whatever the characters of the name, create_layer passes exactly
\* that name to the host, prints it in the confirmation, and evaluates the
\* statements of the template and no other: set the name parameter, invoke
\* NewLayer, clear the parameters.
C15_NameStaysInLiteral ==
    (op.name = "create_layer" /\ pc = "done" /\ pre.sprite /\ fault = 0) =>
        /\ ~escaped
        /\ log = <<Call("setParameter", <<"name", op.layer_name>>),
                   Call("NewLayer", <<>>),
                   Call("clearParameters", <<>>)>>
        /\ layerCount(host) = layerCount(pre) + 1
        /\ layer(host, host.active).name = op.layer_name
        /\ out[1] = Msg("Created new layer", <<op.layer_name>>)

\* ------------------------------------------------------------- bounds: claims
\* the pixel reads and writes the evaluation has made so far
PixelAccesses == {i \in DOMAIN log : log[i].prim \in {"putPixel", "getPixel"}}

\* C16: every pixel write and every pixel read of a drawing script
\* (rectangle, circle, ellipse, line, set pixel, flood fill) is made at
\* coordinates with 0 <= x < width and 0 <= y < height, whatever the
\* position and the size of the shape.
C16_AccessesOnSurface ==
    \A i \in PixelAccesses : OnSurface(pre, log[i].args[1][1], log[i].args[1][2])

\* a thick line from a point off the surface that has written pixels
C16_Witness ==
    /\ op.name = "draw_line"
    /\ pc = "done"
    /\ op.thickness >= 2
    /\ op.x1 < 0
    /\ op.y2 >= pre.h
    /\ Cardinality(Written) >= 3

\* ------------------------------------------------------------- rectangle containment: claims
RectRan ==
    /\ op.name = "draw_rectangle"
    /\ pc = "done"
    /\ op.width >= 0 /\ op.height >= 0
    /\ pre.sprite /\ pre.image /\ fault = 0

\* the pixels a filled rectangle with the same parameters writes
FilledWrites(h, x, y, width, height, c) ==
    LET calls == RectFilled(h, x, y, width, height, c)
    IN  {calls[i].args[1] : i \in DOMAIN calls}

\* C17: for every origin, every width and height >= 0 and both modes, the
\* pixels draw_rectangle writes lie in [x, x+width) x [y, y+height); the
\* pixels written in outline mode are among those written in filled mode
\* with the same parameters; with width 0 or height 0 nothing is written.
C17_RectInside ==
    RectRan =>
        /\ Written \subseteq (op.x .. op.x + op.width - 1) \X (op.y .. op.y + op.height - 1)
        /\ Written \subseteq FilledWrites(pre, op.x, op.y, op.width, op.height, Enc(op.col))
        /\ (op.width = 0 \/ op.height = 0) => (Written = {} /\ host.pixels = pre.pixels)

\* ------------------------------------------------------------- command parameters: claims
\* no host call threw, or the one that threw is NewFile or NewLayer
CreationPath ==
    \/ fault = 0
    \/ Len(log) < fault
    \/ (Len(log) = fault /\ log[fault].prim \in {"NewFile", "NewLayer"})

\* C18: when the evaluation of a create_sprite or create_layer script has
\* ended, by success, by a creation that gave no active sprite or by a fault
\* of the NewFile or NewLayer command, the host's command parameter set is
\* empty.
C18_ParametersCleared ==
    (op.name \in {"create_sprite", "create_layer"} /\ pc = "done" /\ CreationPath) =>
        host.params = {}

\* ------------------------------------------------------------- flood fill termination: claims
\* the loop of a flood fill is running or has ended
FloodLoop ==
    /\ op.name = "flood_fill"
    /\ pc \in {"flood", "done"}
    /\ "fillCount" \in DOMAIN loc

\* C19: while the loop of a flood fill runs and when it has ended, no pixel
\* has been written twice, the count is the number of pixels written and at
\* most width x height, and the stack holds at most 1 + 3 x count entries;
\* a loop that has started reaches the empty stack and the script ends.
C19_FloodTerminates ==
    /\ [](FloodLoop =>
            /\ \A p \in Written : NWrites(p) = 1
            /\ loc.fillCount = Cardinality(Written)
            /\ loc.fillCount <= pre.w * pre.h
            /\ Len(loc.stack) <= 1 + 3 * loc.fillCount)
    /\ (pc = "flood") ~> (pc = "done" /\ loc.stack = <<>>)

\* a flood fill that has written every pixel of the surface
C19_Witness ==
    /\ FloodLoop
    /\ pc = "done"
    /\ loc.fillCount = pre.w * pre.h
    /\ loc.stack = <<>>
    /\ out = <<Msg("Flood fill completed", <<op.x, op.y, pre.w * pre.h>>)>>

\* ------------------------------------------------------------- line termination: claims
Smaller(a, b) == IF a <= b THEN a ELSE b

LineRuns ==
    /\ op.name = "draw_line"
    /\ pc \in {"line", "done"}
    /\ pre.sprite /\ pre.image /\ fault = 0

\* C20: whatever the end points and the thickness, the walk of draw_line
\* never leaves the box spanned by (x1,y1) and (x2,y2), has made at most
\* max(|x2-x1|, |y2-y1|) iterations while it runs, and ends at (x2,y2)
\* after exactly max(|x2-x1|, |y2-y1|) + 1 iterations; every step of the
\* loop is one more iteration, so the loop ends.
C20_LineTerminates ==
    /\ [](LineRuns =>
            LET m == Larger(Abs(op.x2 - op.x1), Abs(op.y2 - op.y1))
            IN  /\ Smaller(op.x1, op.x2) <= loc.x /\ loc.x <= Larger(op.x1, op.x2)
                /\ Smaller(op.y1, op.y2) <= loc.y /\ loc.y <= Larger(op.y1, op.y2)
                /\ pc = "line" => Len(loc.path) <= m
                /\ pc = "done" =>
                      /\ Len(loc.path) = m + 1
                      /\ <<loc.x, loc.y>> = <<op.x2, op.y2>>
                      /\ loc.path[m + 1] = <<op.x2, op.y2>>)
    /\ [][pc = "line" => Len(loc'.path) = Len(loc.path) + 1]_vars

\* a thick line walked upwards and to the left over the whole surface
C20_Witness ==
    /\ LineRuns
    /\ pc = "done"
    /\ op.thickness >= 2
    /\ op.x2 < op.x1 /\ op.y2 < op.y1
    /\ Abs(op.x2 - op.x1) >= pre.w
    /\ Abs(op.y2 - op.y1) >= pre.h

\* a line whose end points are the same point: one iteration
C20_WitnessPoint ==
    /\ LineRuns
    /\ pc = "done"
    /\ op.x1 = op.x2 /\ op.y1 = op.y2
    /\ Len(loc.path) = 1

====
